---------------------------- MODULE Spec2Model ----------------------------
(***************************************************************************)
(* A model of vector_search.py: create_concordance, VectorCompare          *)
(* (magnitude, similarity), the module-level documents / index, and        *)
(* search.                                                                 *)
(*                                                                         *)
(* Python floats are IEEE-754 binary64.  They are modelled exactly: a      *)
(* float is a record [m, e] standing for m * 2^e, where m is a natural     *)
(* number of exactly Precision bits (or zero) held as a little-endian      *)
(* sequence of limbs in base 2^LimbBits, and sqrt, * and / round to        *)
(* nearest, ties to even, as the hardware does.                            *)
(***************************************************************************)
EXTENDS Integers, Sequences, FiniteSets

(***************************************************************************)
(* Natural numbers of arbitrary size (the 53-bit mantissas and their       *)
(* 106-bit products): little-endian limb sequences, no leading zero limb.  *)
(***************************************************************************)
LimbBits == 15

Base == 2 ^ LimbBits

Max(a, b) == IF a >= b THEN a ELSE b

Limb(x, i) == IF i <= Len(x) THEN x[i] ELSE 0

RECURSIVE BigNorm(_)
BigNorm(x) ==
    IF x = <<>> THEN <<>>
    ELSE IF x[Len(x)] = 0 THEN BigNorm(SubSeq(x, 1, Len(x) - 1))
    ELSE x

RECURSIVE BigFromInt(_)
BigFromInt(n) ==
    IF n = 0 THEN <<>> ELSE <<n % Base>> \o BigFromInt(n \div Base)

RECURSIVE AddFrom(_, _, _, _)
AddFrom(x, y, i, c) ==
    IF i > Max(Len(x), Len(y))
    THEN (IF c = 0 THEN <<>> ELSE <<c>>)
    ELSE LET s == Limb(x, i) + Limb(y, i) + c
         IN  <<s % Base>> \o AddFrom(x, y, i + 1, s \div Base)

BigAdd(x, y) == AddFrom(x, y, 1, 0)

\* x - y, for x >= y
RECURSIVE SubFrom(_, _, _, _)
SubFrom(x, y, i, b) ==
    IF i > Len(x) THEN <<>>
    ELSE LET d == x[i] - Limb(y, i) - b
         IN  IF d < 0 THEN <<d + Base>> \o SubFrom(x, y, i + 1, 1)
             ELSE <<d>> \o SubFrom(x, y, i + 1, 0)

BigSub(x, y) == BigNorm(SubFrom(x, y, 1, 0))

\* x < y from limb i downwards, both of the same length
RECURSIVE LessFrom(_, _, _)
LessFrom(x, y, i) ==
    IF i = 0 THEN FALSE
    ELSE IF x[i] # y[i] THEN x[i] < y[i]
    ELSE LessFrom(x, y, i - 1)

BigLess(x, y) ==
    IF Len(x) # Len(y) THEN Len(x) < Len(y) ELSE LessFrom(x, y, Len(x))

\* x * k, for 0 <= k < Base
RECURSIVE MulSmallFrom(_, _, _, _)
MulSmallFrom(x, k, i, c) ==
    IF i > Len(x)
    THEN (IF c = 0 THEN <<>> ELSE <<c>>)
    ELSE LET p == x[i] * k + c
         IN  <<p % Base>> \o MulSmallFrom(x, k, i + 1, p \div Base)

BigMulSmall(x, k) == IF k = 0 THEN <<>> ELSE MulSmallFrom(x, k, 1, 0)

RECURSIVE MulFrom(_, _, _)
MulFrom(x, y, i) ==
    IF i > Len(y) THEN <<>>
    ELSE BigAdd(BigMulSmall(x, y[i]), <<0>> \o MulFrom(x, y, i + 1))

BigMul(x, y) == BigNorm(MulFrom(x, y, 1))

\* floor(x / 2^k)
BigShr(x, k) ==
    LET a == k \div LimbBits
        b == k % LimbBits
    IN  BigNorm([i \in 1..Max(Len(x) - a, 0) |->
                    (x[i + a] \div 2 ^ b)
                    + (Limb(x, i + a + 1) % 2 ^ b) * 2 ^ (LimbBits - b)])

\* bit i of x, counted from 0
BigBit(x, i) == (Limb(x, i \div LimbBits + 1) \div 2 ^ (i % LimbBits)) % 2

\* whether x mod 2^n # 0
BigLowBits(x, n) ==
    \/ \E i \in 1..(n \div LimbBits) : Limb(x, i) # 0
    \/ Limb(x, n \div LimbBits + 1) % 2 ^ (n % LimbBits) # 0

BigOdd(x) == x # <<>> /\ x[1] % 2 = 1

RECURSIVE BitLenInt(_)
BitLenInt(n) == IF n = 0 THEN 0 ELSE 1 + BitLenInt(n \div 2)

BitLen(x) ==
    IF x = <<>> THEN 0 ELSE (Len(x) - 1) * LimbBits + BitLenInt(x[Len(x)])

RECURSIVE BigShl(_, _)
BigShl(x, k) ==
    IF x = <<>> \/ k = 0 THEN x
    ELSE IF k >= LimbBits THEN <<0>> \o BigShl(x, k - LimbBits)
    ELSE BigMulSmall(x, 2 ^ k)

(***************************************************************************)
(* IEEE-754 binary64 values >= 0.  The program never produces a negative   *)
(* number, an infinity or a NaN: counts are positive ints.                 *)
(***************************************************************************)
Precision == 53

FZero == [m |-> <<>>, e |-> 0]

\* a mantissa that rounding carried to 2^Precision is renormalised
FNormal(m, e) ==
    IF BitLen(m) > Precision THEN [m |-> BigShr(m, 1), e |-> e + 1]
    ELSE [m |-> m, e |-> e]

\* x < y  (float.__lt__), x, y >= 0
FLess(x, y) ==
    IF y.m = <<>> THEN FALSE
    ELSE IF x.m = <<>> THEN TRUE
    ELSE IF x.e # y.e THEN x.e < y.e
    ELSE BigLess(x.m, y.m)

RECURSIVE ISqrtFrom(_, _)
ISqrtFrom(n, r) == IF (r + 1) * (r + 1) > n THEN r ELSE ISqrtFrom(n, r + 1)

\* one step of the schoolbook digit-by-digit square root of a radicand
\* continued with two zero bits: st = <<root so far, remainder so far>>
SqrtStep(st) ==
    LET rem4  == BigMulSmall(st[2], 4)
        trial == BigAdd(BigMulSmall(st[1], 4), <<1>>)
    IN  IF BigLess(rem4, trial)
        THEN <<BigMulSmall(st[1], 2), rem4>>
        ELSE <<BigAdd(BigMulSmall(st[1], 2), <<1>>), BigSub(rem4, trial)>>

\* k steps, halved as in DivSteps below
RECURSIVE SqrtSteps(_, _)
SqrtSteps(st, k) ==
    IF k = 0 THEN st
    ELSE IF k = 1 THEN SqrtStep(st)
    ELSE LET half == SqrtSteps(st, k \div 2)
         IN  IF Len(half) = 2 THEN SqrtSteps(half, k - k \div 2) ELSE half

\* math.sqrt(n) for an int n >= 0: correctly rounded
FSqrt(n) ==
    IF n = 0 THEN FZero
    ELSE LET r0 == ISqrtFrom(n, 0)
             s  == Precision - BitLenInt(r0)
             rr == SqrtSteps(<<BigFromInt(r0), BigFromInt(n - r0 * r0)>>, s)
             up == BigLess(rr[1], rr[2])
         IN  FNormal(IF up THEN BigAdd(rr[1], <<1>>) ELSE rr[1], -s)

\* x * y  (float.__mul__): round to nearest, ties to even
FMul(x, y) ==
    IF x.m = <<>> \/ y.m = <<>> THEN FZero
    ELSE LET p  == BigMul(x.m, y.m)
             k  == BitLen(p) - Precision
             q  == BigShr(p, k)
             up == BigBit(p, k - 1) = 1 /\ (BigLowBits(p, k - 1) \/ BigOdd(q))
         IN  FNormal(IF up THEN BigAdd(q, <<1>>) ELSE q, x.e + y.e + k)

\* one step of long division by d of a dividend continued with a zero bit:
\* st = <<quotient so far, remainder so far>>, remainder < d
DivStep(st, d) ==
    LET rem2 == BigMulSmall(st[2], 2)
    IN  IF BigLess(rem2, d)
        THEN <<BigMulSmall(st[1], 2), rem2>>
        ELSE <<BigAdd(BigMulSmall(st[1], 2), <<1>>), BigSub(rem2, d)>>

\* k steps.  The steps are halved and the first half is evaluated (by the
\* test on it) before the second starts: TLC passes arguments unevaluated,
\* and a chain of k pending steps is too deep for it.
RECURSIVE DivSteps(_, _, _)
DivSteps(st, d, k) ==
    IF k = 0 THEN st
    ELSE IF k = 1 THEN DivStep(st, d)
    ELSE LET half == DivSteps(st, d, k \div 2)
         IN  IF Len(half) = 2 THEN DivSteps(half, d, k - k \div 2) ELSE half

\* n / y for an int n >= 0 and a float y > 0  (int.__truediv__ after the
\* exact conversion of n): round to nearest, ties to even
FDivInt(n, y) ==
    IF n = 0 THEN FZero
    ELSE LET a    == BitLenInt(n) - 1
             d0   == BigShl(BigFromInt(n), Precision - 1 - a)
             less == BigLess(d0, y.m)
             qr   == IF less THEN DivSteps(<<<<>>, d0>>, y.m, Precision)
                     ELSE DivSteps(<<<<1>>, BigSub(d0, y.m)>>, y.m, Precision - 1)
             t    == 2 * Precision - 2 - a + (IF less THEN 1 ELSE 0)
             rem2 == BigMulSmall(qr[2], 2)
             up   == BigLess(y.m, rem2) \/ (rem2 = y.m /\ BigOdd(qr[1]))
         IN  FNormal(IF up THEN BigAdd(qr[1], <<1>>) ELSE qr[1], -t - y.e)

(***************************************************************************)
(* Python values.  One record shape for all of them, so that any two can   *)
(* be compared: type is the Python type's name, s the characters of a str  *)
(* or bytes, d the items of a dict in insertion order (<<key, value>>),    *)
(* num the value of an int or float, l the items of a list.                *)
(***************************************************************************)
PyNone == [type |-> "NoneType", s |-> <<>>, d |-> <<>>, num |-> FZero, l |-> <<>>]

PyStr(s) == [PyNone EXCEPT !.type = "str", !.s = s]

PyBytes(s) == [PyNone EXCEPT !.type = "bytes", !.s = s]

PyDict(d) == [PyNone EXCEPT !.type = "dict", !.d = d]

PyList(l) == [PyNone EXCEPT !.type = "list", !.l = l]

PyFloat(f) == [PyNone EXCEPT !.type = "float", !.num = f]

\* the value of the int n >= 0, held like a float's (exact: n is small)
FFromInt(n) ==
    IF n = 0 THEN FZero
    ELSE [m |-> BigShl(BigFromInt(n), Precision - BitLenInt(n)),
          e |-> BitLenInt(n) - Precision]

PyInt(n) == [PyNone EXCEPT !.type = "int", !.num = FFromInt(n)]

\* what a call leaves: the exception raised ("" for none) and the value returned
Returns(v) == [exc |-> "", val |-> v]

Raises(e) == [exc |-> e, val |-> PyNone]

(***************************************************************************)
(* str.lower and str.split                                                 *)
(***************************************************************************)
UpperCase ==
    <<"A", "B", "C", "D", "E", "F", "G", "H", "I", "J", "K", "L", "M",
      "N", "O", "P", "Q", "R", "S", "T", "U", "V", "W", "X", "Y", "Z">>

LowerCase ==
    <<"a", "b", "c", "d", "e", "f", "g", "h", "i", "j", "k", "l", "m",
      "n", "o", "p", "q", "r", "s", "t", "u", "v", "w", "x", "y", "z">>

LowerChar(c) ==
    IF \E i \in DOMAIN UpperCase : UpperCase[i] = c
    THEN LowerCase[CHOOSE i \in DOMAIN UpperCase : UpperCase[i] = c]
    ELSE c

lower(s) == [i \in 1..Len(s) |-> LowerChar(s[i])]

\* the characters str.split() takes for separators, of those a TLA+ string
\* can be written with
Whitespace == {" ", "\t", "\n", "\r", "\f"}

\* where a word starts, and where the word that starts at i ends
WordStarts(s) ==
    {i \in 1..Len(s) : s[i] \notin Whitespace /\ (i = 1 \/ s[i - 1] \in Whitespace)}

WordEnd(s, i) ==
    CHOOSE j \in i..Len(s) :
        /\ \A k \in i..j : s[k] \notin Whitespace
        /\ (j = Len(s) \/ s[j + 1] \in Whitespace)

\* s.split(): the maximal runs of non-whitespace characters, in order
split(s) ==
    LET starts == WordStarts(s)
        nth(k) == CHOOSE i \in starts : Cardinality({j \in starts : j < i}) = k - 1
    IN  [k \in 1..Cardinality(starts) |-> SubSeq(s, nth(k), WordEnd(s, nth(k)))]

(***************************************************************************)
(* dict                                                                    *)
(***************************************************************************)
DictHas(d, k) == \E i \in 1..Len(d) : d[i][1] = k

\* d.get(k, default)
DictGet(d, k, default) ==
    IF DictHas(d, k) THEN d[CHOOSE i \in 1..Len(d) : d[i][1] = k][2] ELSE default

\* d[k] = v
DictSet(d, k, v) ==
    IF DictHas(d, k)
    THEN [i \in 1..Len(d) |-> IF d[i][1] = k THEN <<k, v>> ELSE d[i]]
    ELSE Append(d, <<k, v>>)

(***************************************************************************)
(* create_concordance                                                      *)
(***************************************************************************)
\* a first occurrence stored as 0: concordance.get(word, -1) + 1
CountWordFromZero(concordance, word) ==
    DictSet(concordance, word, DictGet(concordance, word, -1) + 1)

\* concordance[word] = concordance.get(word, 0) + 1
CountWord(concordance, word) ==
    DictSet(concordance, word, DictGet(concordance, word, 0) + 1)

\* for word in words[i..]: ...
RECURSIVE CountWords(_, _, _)
CountWords(concordance, words, i) ==
    IF i > Len(words) THEN concordance
    ELSE CountWords(CountWord(concordance, words[i]), words, i + 1)

\* document.lower().split(" "): every single space separates, other
\* whitespace does not, and empty words are kept
RECURSIVE SplitOnSpace(_)
SplitOnSpace(s) ==
    IF \A i \in 1..Len(s) : s[i] # " " THEN <<s>>
    ELSE LET j == CHOOSE i \in 1..Len(s) :
                      s[i] = " " /\ \A k \in 1..(i - 1) : s[k] # " "
         IN  <<SubSeq(s, 1, j - 1)>> \o SplitOnSpace(SubSeq(s, j + 1, Len(s)))

WordsOnSpace(document) == SplitOnSpace(lower(document.s))

\* words = document.lower().split()
Words(document) == split(lower(document.s))

create_concordance(document) ==
    IF document.type # "str" THEN Raises("ValueError")
    ELSE Returns(PyDict(CountWords(<<>>, Words(document), 1)))

(***************************************************************************)
(* VectorCompare                                                           *)
(***************************************************************************)
\* sum(count ** 2 for count in concordance.values()), an int
RECURSIVE SumSquares(_, _)
SumSquares(d, i) ==
    IF i > Len(d) THEN 0 ELSE d[i][2] * d[i][2] + SumSquares(d, i + 1)

magnitude(concordance) ==
    IF concordance.type # "dict" THEN Raises("ValueError")
    ELSE Returns(PyFloat(FSqrt(SumSquares(concordance.d, 1))))

\* sum(concordance1.get(word, 0) * concordance2.get(word, 0)
\*     for word in concordance1), an int
RECURSIVE DotProduct(_, _, _)
DotProduct(d1, d2, i) ==
    IF i > Len(d1) THEN 0
    ELSE DictGet(d1, d1[i][1], 0) * DictGet(d2, d1[i][1], 0)
         + DotProduct(d1, d2, i + 1)

\* n / y for an int n and a float y
TrueDiv(n, y) ==
    IF y.m = <<>> THEN Raises("ZeroDivisionError")
    ELSE Returns(PyFloat(FDivInt(n, y)))

\* the last line without its guard: dot_product / magnitude_product
Quotient(dot_product, magnitude_product) ==
    TrueDiv(dot_product, magnitude_product)

\* dot_product / magnitude_product if magnitude_product else 0
GuardedQuotient(dot_product, magnitude_product) ==
    IF magnitude_product.m # <<>> THEN TrueDiv(dot_product, magnitude_product)
    ELSE Returns(PyInt(0))

\* magnitude(concordance1) squared in place of the product of the two
MagnitudeSquared(concordance1, concordance2) ==
    FMul(magnitude(concordance1).val.num, magnitude(concordance1).val.num)

\* self.magnitude(concordance1) * self.magnitude(concordance2)
MagnitudeProduct(concordance1, concordance2) ==
    FMul(magnitude(concordance1).val.num, magnitude(concordance2).val.num)

similarity(concordance1, concordance2) ==
    IF concordance1.type # "dict" \/ concordance2.type # "dict"
    THEN Raises("ValueError")
    ELSE GuardedQuotient(DotProduct(concordance1.d, concordance2.d, 1),
                         MagnitudeProduct(concordance1, concordance2))

(***************************************************************************)
(* The module's globals                                                    *)
(***************************************************************************)
Document0 ==
    <<"T", "h", "e", " ", "q", "u", "i", "c", "k", " ", "b", "r", "o", "w",
      "n", " ", "f", "o", "x", " ", "j", "u", "m", "p", "s", " ", "o", "v",
      "e", "r", " ", "t", "h", "e", " ", "l", "a", "z", "y", " ", "d", "o",
      "g">>

Document1 ==
    <<"T", "h", "e", " ", "f", "a", "s", "t", " ", "f", "o", "x", " ", "l",
      "e", "a", "p", "s", " ", "o", "v", "e", "r", " ", "a", " ", "s", "l",
      "e", "e", "p", "i", "n", "g", " ", "d", "o", "g">>

Document2 ==
    <<"D", "o", "g", "s", " ", "a", "r", "e", " ", "c", "o", "m", "m", "o",
      "n", " ", "p", "e", "t", "s", " ", "i", "n", " ", "m", "a", "n", "y",
      " ", "h", "o", "u", "s", "e", "h", "o", "l", "d", "s">>

Document3 ==
    <<"A", " ", "f", "o", "x", " ", "i", "s", " ", "a", " ", "w", "i", "l",
      "d", " ", "a", "n", "i", "m", "a", "l", ",", " ", "n", "o", "t", " ",
      "a", " ", "p", "e", "t">>

\* documents = {0: ..., 1: ..., 2: ..., 3: ...}, its items in insertion order
Documents ==
    <<<<0, PyStr(Document0)>>, <<1, PyStr(Document1)>>,
      <<2, PyStr(Document2)>>, <<3, PyStr(Document3)>>>>

\* text.lower(): AttributeError for a value with no such method
Lower(text) ==
    IF text.type \in {"str", "bytes"}
    THEN Returns([text EXCEPT !.s = lower(text.s)])
    ELSE Raises("AttributeError")

\* index = {doc_id: create_concordance(text.lower())
\*          for doc_id, text in documents.items()}
BuildIndex(docs) ==
    [i \in 1..Len(docs) |->
        <<docs[i][1], create_concordance(Lower(docs[i][2]).val).val>>]

(***************************************************************************)
(* search                                                                  *)
(***************************************************************************)
\* x < y for two (score, doc_id) tuples compared whole, as sorted does
\* when it is given no key: by score, then by doc_id
TupleLess(x, y) ==
    \/ FLess(x[1].num, y[1].num)
    \/ (x[1].num = y[1].num /\ x[2] < y[2])

\* key(x) < key(y) for key=lambda x: x[0] and two (score, doc_id) pairs
KeyLess(x, y) == FLess(x[1].num, y[1].num)

\* x goes before the first item that is less than it, after its equals
InsertDesc(sorted, x) ==
    LET n == Len(sorted)
        p == IF \E i \in 1..n : KeyLess(sorted[i], x)
             THEN CHOOSE i \in 1..n :
                      /\ KeyLess(sorted[i], x)
                      /\ \A j \in 1..(i - 1) : ~KeyLess(sorted[j], x)
             ELSE n + 1
    IN  SubSeq(sorted, 1, p - 1) \o <<x>> \o SubSeq(sorted, p, n)

RECURSIVE SortDesc(_, _, _)
SortDesc(list, i, sorted) ==
    IF i > Len(list) THEN sorted
    ELSE SortDesc(list, i + 1, InsertDesc(sorted, list[i]))

\* sorted(matches, reverse=True, key=lambda x: x[0]): the sort is stable, and
\* reverse=True leaves it stable
sorted_reverse(matches) == SortDesc(matches, 1, <<>>)

\* the scores of the index's documents, those of score 0 left out
\* (the filter of the __main__ block moved into the comprehension)
positive_matches(v, idx) ==
    SelectSeq([i \in 1..Len(idx) |-> <<similarity(v, idx[i][2]).val, idx[i][1]>>],
              LAMBDA x : FLess(FZero, x[1].num))

\* [(v.similarity(query_vector, index[doc_id]), doc_id) for doc_id in index]
\* (similarity raises nothing here: both arguments are dicts)
matches(v, idx) ==
    [i \in 1..Len(idx) |-> <<similarity(v, idx[i][2]).val, idx[i][1]>>]

\* query_vector = create_concordance(query.lower())
QueryVector(query) ==
    IF Lower(query).exc # "" THEN Lower(query)
    ELSE create_concordance(Lower(query).val)

\* search(query) over the index idx
search(query, idx) ==
    IF QueryVector(query).exc # "" THEN Raises(QueryVector(query).exc)
    ELSE Returns(PyList(sorted_reverse(matches(QueryVector(query).val, idx))))

(***************************************************************************)
(* The inputs of the calls                                                 *)
(***************************************************************************)
MaxLen == 3

MaxTokens == 3

\* the characters of the texts given to create_concordance
TextChars == {"a", "A", "b", " ", "\t"}

\* the characters of the queries given to search: "a" is a word of
\* documents 1 and 3, "in" of document 2
QueryChars == {"a", "A", "i", "n", " "}

StringsOver(chars) == UNION {[1..k -> chars] : k \in 0..MaxLen}

Terms == <<<<"a">>, <<"b">>, <<"c">>>>

\* the term-frequency vectors of the texts of at most MaxTokens tokens, each
\* token one of Terms: the counts are at least 1, a term that does not occur
\* is no key
Vectors ==
    {SelectSeq([i \in DOMAIN Terms |-> <<Terms[i], f[i]>>], LAMBDA it : it[2] > 0) :
        f \in {g \in [DOMAIN Terms -> 0..MaxTokens] : g[1] + g[2] + g[3] <= MaxTokens}}

NonStrings == {PyNone, PyInt(5), PyBytes(<<"A", " ", "a">>), PyDict(<<>>)}

NonDicts == {PyNone, PyInt(5), PyStr(<<"a">>)}

Calls ==
    {[op |-> "create_concordance", args |-> <<v>>] :
        v \in {PyStr(s) : s \in StringsOver(TextChars)} \cup NonStrings}
    \cup {[op |-> "magnitude", args |-> <<v>>] :
        v \in {PyDict(d) : d \in Vectors} \cup NonDicts}
    \cup {[op |-> "similarity", args |-> <<PyDict(d1), PyDict(d2)>>] :
        d1 \in Vectors, d2 \in Vectors}
    \cup {[op |-> "similarity", args |-> <<v, w>>] :
        v \in NonDicts \cup {PyDict(<<>>)}, w \in NonDicts}
    \cup {[op |-> "similarity", args |-> <<w, v>>] :
        v \in NonDicts \cup {PyDict(<<>>)}, w \in NonDicts}
    \cup {[op |-> "search", args |-> <<v>>] :
        v \in {PyStr(s) : s \in StringsOver(QueryChars)} \cup NonStrings}

(***************************************************************************)
(* The program: the globals, and one call at a time by its caller          *)
(***************************************************************************)
VARIABLES
    documents,      \* the global documents
    index,          \* the global index
    pc,             \* "idle", "running" (a call is made) or "done" (it is over)
    op,             \* the function called
    args,           \* its arguments, as they are now
    query_vector,   \* search's local
    ret             \* what the call left: Returns(v) or Raises(e)

vars == <<documents, index, pc, op, args, query_vector, ret>>

NoCall == Returns(PyNone)

Init ==
    /\ documents = Documents
    /\ index = BuildIndex(Documents)
    /\ pc = "idle"
    /\ op = ""
    /\ args = <<>>
    /\ query_vector = PyNone
    /\ ret = NoCall

\* the caller calls one of the functions
Call ==
    /\ pc = "idle"
    /\ \E c \in Calls : op' = c.op /\ args' = c.args
    /\ pc' = "running"
    /\ UNCHANGED <<documents, index, query_vector, ret>>

CreateConcordance ==
    /\ pc = "running" /\ op = "create_concordance"
    /\ ret' = create_concordance(args[1])
    /\ pc' = "done"
    /\ UNCHANGED <<documents, index, op, args, query_vector>>

Magnitude ==
    /\ pc = "running" /\ op = "magnitude"
    /\ ret' = magnitude(args[1])
    /\ pc' = "done"
    /\ UNCHANGED <<documents, index, op, args, query_vector>>

Similarity ==
    /\ pc = "running" /\ op = "similarity"
    /\ ret' = similarity(args[1], args[2])
    /\ pc' = "done"
    /\ UNCHANGED <<documents, index, op, args, query_vector>>

\* a search that takes the documents out of the index as it scores them
SearchPopping ==
    /\ pc = "running" /\ op = "search"
    /\ ret' = search(args[1], index)
    /\ query_vector' = QueryVector(args[1]).val
    /\ index' = IF ret'.exc = "" THEN <<>> ELSE index
    /\ pc' = "done"
    /\ UNCHANGED <<documents, op, args>>

Search ==
    /\ pc = "running" /\ op = "search"
    /\ ret' = search(args[1], index)
    /\ query_vector' = QueryVector(args[1]).val
    /\ pc' = "done"
    /\ UNCHANGED <<documents, index, op, args>>

\* the caller takes the result; the call's frame is gone
Return ==
    /\ pc = "done"
    /\ pc' = "idle"
    /\ op' = ""
    /\ args' = <<>>
    /\ query_vector' = PyNone
    /\ ret' = NoCall
    /\ UNCHANGED <<documents, index>>

Next ==
    \/ Call
    \/ CreateConcordance
    \/ Magnitude
    \/ Similarity
    \/ Search
    \/ Return

Spec == Init /\ [][Next]_vars

(***************************************************************************)
(* The claims                                                              *)
(***************************************************************************)
Done(o) == pc = "done" /\ op = o

IsDict(v) == v.type = "dict"

\* where document doc_id comes in the iteration of the index
IndexPos(doc_id) == CHOOSE k \in 1..Len(index) : index[k][1] = doc_id

FOne == FFromInt(1)

RECURSIVE SumValues(_, _)
SumValues(d, i) == IF i > Len(d) THEN 0 ELSE d[i][2] + SumValues(d, i + 1)

Keys(d) == {d[i][1] : i \in 1..Len(d)}

\* the dot product summed over the union of the two key sets
RECURSIVE SumOver(_, _, _)
SumOver(keys, d1, d2) ==
    IF keys = {} THEN 0
    ELSE LET k == CHOOSE w \in keys : TRUE
         IN  DictGet(d1, k, 0) * DictGet(d2, k, 0) + SumOver(keys \ {k}, d1, d2)

UnionDot(d1, d2) == SumOver(Keys(d1) \cup Keys(d2), d1, d2)

\* C1: the list search returns has non-increasing scores from first to last,
\* and two documents of equal score come in the order in which the index
\* iterates them.
C1_RankStablySorted ==
    (Done("search") /\ ret.exc = "") =>
        \A i, j \in 1..Len(ret.val.l) :
            i < j =>
                /\ ~FLess(ret.val.l[i][1].num, ret.val.l[j][1].num)
                /\ (ret.val.l[i][1].num = ret.val.l[j][1].num
                        => IndexPos(ret.val.l[i][2]) < IndexPos(ret.val.l[j][2]))

\* C1's case: a returned ranking with two documents of equal score, and two
\* of different scores that the index iterates in the other order
C1_Witness ==
    /\ Done("search") /\ ret.exc = ""
    /\ \E i, j \in 1..Len(ret.val.l) :
           i < j /\ ret.val.l[i][1].num = ret.val.l[j][1].num
    /\ \E i, j \in 1..Len(ret.val.l) :
           /\ i < j /\ FLess(ret.val.l[j][1].num, ret.val.l[i][1].num)
           /\ IndexPos(ret.val.l[j][2]) < IndexPos(ret.val.l[i][2])

\* C2: for a string s, create_concordance(s) raises nothing and maps each
\* distinct whitespace-separated token of s.lower() to the number of times it
\* occurs, so the counts sum to the number of tokens; with no token the
\* mapping is empty.
C2_ConcordanceCounts ==
    (Done("create_concordance") /\ args[1].type = "str") =>
        LET words == split(lower(args[1].s))
            d     == ret.val.d
        IN  /\ ret.exc = "" /\ IsDict(ret.val)
            /\ Keys(d) = {words[k] : k \in 1..Len(words)}
            /\ Cardinality(Keys(d)) = Len(d)
            /\ \A i \in 1..Len(d) :
                   d[i][2] = Cardinality({k \in 1..Len(words) : words[k] = d[i][1]})
            /\ SumValues(d, 1) = Cardinality(WordStarts(lower(args[1].s)))
            /\ (WordStarts(lower(args[1].s)) = {} => d = <<>>)

\* C2's case: a string with an upper-case letter and a token that occurs twice
C2_Witness ==
    /\ Done("create_concordance") /\ args[1].type = "str"
    /\ \E i \in 1..Len(args[1].s) : args[1].s[i] # LowerChar(args[1].s[i])
    /\ \E i \in 1..Len(ret.val.d) : ret.val.d[i][2] = 2

\* C3: a non-string given to create_concordance, a non-mapping given to
\* magnitude or as either argument of similarity, raises ValueError (the
\* TypeKind error) and returns nothing; and no call of any operation, search
\* on a non-string query included, raises any other error.
C3_OnlyTypeKindErrors ==
    pc = "done" =>
        /\ (op = "create_concordance" /\ args[1].type # "str"
                => ret = Raises("ValueError"))
        /\ (op = "magnitude" /\ ~IsDict(args[1]) => ret = Raises("ValueError"))
        /\ (op = "similarity" /\ (~IsDict(args[1]) \/ ~IsDict(args[2]))
                => ret = Raises("ValueError"))
        /\ (ret.exc # "" => ret.exc = "ValueError")

\* C4: similarity of any vector with the empty vector, on either side, is 0
\* and no division error is raised; a search whose query has no token gives
\* every document the score 0.
C4_ZeroMagnitudeGuard ==
    pc = "done" =>
        /\ ret.exc # "ZeroDivisionError"
        /\ (op = "similarity" /\ IsDict(args[1]) /\ IsDict(args[2])
            /\ (args[1].d = <<>> \/ args[2].d = <<>>)
                => ret.exc = "" /\ ret.val.num = FZero)
        /\ (op = "search" /\ args[1].type = "str" /\ WordStarts(args[1].s) = {}
                => /\ ret.exc = ""
                   /\ Len(ret.val.l) = Len(index)
                   /\ \A i \in 1..Len(ret.val.l) : ret.val.l[i][1].num = FZero)

\* C4's case: similarity has returned for a non-empty and an empty vector
C4_Witness ==
    /\ Done("similarity") /\ IsDict(args[1]) /\ IsDict(args[2])
    /\ args[1].d # <<>> /\ args[2].d = <<>>
    /\ ret = Returns(PyInt(0))

\* C5: similarity(v, v) is 1.0 for every non-empty term-frequency vector v.
C5_SelfSimilarityIsOne ==
    (Done("similarity") /\ IsDict(args[1]) /\ args[1] = args[2] /\ args[1].d # <<>>)
        => ret.exc = "" /\ ret.val.num = FOne

\* C6: for term-frequency vectors a and b the dot product does not exceed
\* magnitude(a) * magnitude(b), and similarity(a, b) lies in [0, 1].
C6_SimilarityInUnitRange ==
    (Done("similarity") /\ IsDict(args[1]) /\ IsDict(args[2])) =>
        /\ ret.exc = ""
        /\ ~FLess(ret.val.num, FZero)
        /\ ~FLess(FOne, ret.val.num)
        /\ ~FLess(MagnitudeProduct(args[1], args[2]),
                  FFromInt(DotProduct(args[1].d, args[2].d, 1)))

\* C7: similarity(v, w) = similarity(w, v), and the dot product taken over the
\* keys of the first argument is the dot product over the union of the keys.
C7_SimilaritySymmetric ==
    (Done("similarity") /\ IsDict(args[1]) /\ IsDict(args[2])) =>
        /\ ret = similarity(args[2], args[1])
        /\ DotProduct(args[1].d, args[2].d, 1) = UnionDot(args[1].d, args[2].d)

\* C7's case: two vectors of different magnitudes, each with a term the other
\* lacks and one in common
C7_Witness ==
    /\ Done("similarity") /\ IsDict(args[1]) /\ IsDict(args[2])
    /\ Keys(args[1].d) \ Keys(args[2].d) # {}
    /\ Keys(args[2].d) \ Keys(args[1].d) # {}
    /\ Keys(args[1].d) \cap Keys(args[2].d) # {}
    /\ SumSquares(args[1].d, 1) # SumSquares(args[2].d, 1)
    /\ ret.exc = "" /\ FLess(FZero, ret.val.num)

\* C8: search filters nothing: the list it returns has exactly one pair for
\* each document of the index, those of score 0 included, none for any other
\* identifier, and each score is similarity(query_vector, index[doc_id]).
C8_RankNoFiltering ==
    (Done("search") /\ ret.exc = "") =>
        /\ Len(ret.val.l) = Len(index)
        /\ {ret.val.l[i][2] : i \in 1..Len(ret.val.l)}
               = {index[k][1] : k \in 1..Len(index)}
        /\ \A i \in 1..Len(ret.val.l) :
               Returns(ret.val.l[i][1])
                   = similarity(query_vector, index[IndexPos(ret.val.l[i][2])][2])

\* C8's case: a returned ranking with a document of score 0 and one of a
\* positive score
C8_Witness ==
    /\ Done("search") /\ ret.exc = ""
    /\ \E i \in 1..Len(ret.val.l) : ret.val.l[i][1].num = FZero
    /\ \E i \in 1..Len(ret.val.l) : FLess(FZero, ret.val.l[i][1].num)

\* C9: no call changes the index or the documents, the index stays the vectors
\* built from the documents, and a call leaves its arguments as they were,
\* also when it raises.
C9_NothingMutated ==
    /\ [](index = BuildIndex(documents))
    /\ [][/\ index' = index
          /\ documents' = documents
          /\ (pc = "running" => args' = args)]_vars

\* C9's case: a search has returned a ranking of the whole index
C9_Witness ==
    /\ Done("search") /\ ret.exc = "" /\ Len(ret.val.l) = Len(Documents)
    /\ query_vector.d # <<>>
    /\ index = BuildIndex(Documents)

\* C10: every count in a vector of the index, in the query vector search
\* builds and in a vector create_concordance returns is at least 1.
C10_CountsAtLeastOne ==
    /\ \A k \in 1..Len(index) :
           \A i \in 1..Len(index[k][2].d) : index[k][2].d[i][2] >= 1
    /\ \A i \in 1..Len(query_vector.d) : query_vector.d[i][2] >= 1
    /\ (Done("create_concordance") =>
            \A i \in 1..Len(ret.val.d) : ret.val.d[i][2] >= 1)

\* C10's case: search has built the vector of a query with a repeated token
C10_Witness ==
    /\ Done("search") /\ IsDict(query_vector)
    /\ \E i \in 1..Len(query_vector.d) : query_vector.d[i][2] >= 2

=============================================================================
